---- MODULE Spec2Model ----
(***************************************************************************)
(* Track selection of feature_tracks/ft_ranking.py: the connectivity       *)
(* matrix, the camera weights, the track ranking, the inverted track list, *)
(* the tree-growing selector select_best_tracks and its incremental        *)
(* wrapper select_best_tracks_adj_cams.                                    *)
(*                                                                         *)
(* Indices are 0-based as in the source.  A matrix is a function           *)
(* [0..rows-1 -> [0..cols-1 -> value]]; a Python list is a sequence.       *)
(* Pixel coordinates are never read except through isnan, so an observed   *)
(* cell of C holds 0 and a missing one holds NaN.                          *)
(***************************************************************************)
EXTENDS Integers, Sequences, FiniteSets, TLC

\* ------------------------------------------------------------------ bounds
MaxCams == 3
MaxTracks == 2
MaxK == 2
MaxThreshold == 2
DefaultMinMatches == 10
DefaultK == 30

\* np.nan, the marker of a missing observation
NaN == -1

isnan(x) == x = NaN

\* f itself: TLC builds the function once here instead of at each application
Eager(f) == CHOOSE g \in {f} : g = f

\* ----------------------------------------------------------------- helpers
RECURSIVE SumOver(_, _)
SumOver(S, f) ==
    IF S = {} THEN 0
    ELSE LET x == CHOOSE y \in S : TRUE IN f[x] + SumOver(S \ {x}, f)

Min(S) == CHOOSE x \in S : \A y \in S : x <= y

\* sorted(set) of integers, as np.intersect1d and list(set(..)) of small ints give
RECURSIVE sorted(_)
sorted(S) == IF S = {} THEN <<>> ELSE <<Min(S)>> \o sorted(S \ {Min(S)})

set(s) == {s[i] : i \in 1..Len(s)}

RECURSIVE Gcd(_, _)
Gcd(a, b) == IF b = 0 THEN a ELSE Gcd(b, a % b)

RECURSIVE LcmUpTo(_)
LcmUpTo(n) == IF n <= 1 THEN 1 ELSE LET l == LcmUpTo(n - 1) IN (l * n) \div Gcd(l, n)

\* C.shape[0] and C.shape[1]
shape0(M) == Cardinality(DOMAIN M)
shape1(M) == IF DOMAIN M = {} THEN 0 ELSE Cardinality(DOMAIN M[0])

\* int(C.shape[0]/2): true division, then truncation
n_cam_of(M) == shape0(M) \div 2

\* --------------------------------------------- build_connectivity_matrix
\* np.sum(logical_and(~isnan(C[2*im1, :]), ~isnan(C[2*im2, :])))
n_matches(M, im1, im2) ==
    Cardinality({t \in 0..shape1(M) - 1 : ~isnan(M[2 * im1][t]) /\ ~isnan(M[2 * im2][t])})

\* variant: the comparison with the threshold is strict
ThresholdedStrict(n, min_matches) == IF n > min_matches THEN n ELSE 0

\* variant: the threshold is not applied
ThresholdedOff(n, min_matches) == n

\* n_matches if n_matches >= min_matches else 0
Thresholded(n, min_matches) == IF n >= min_matches THEN n ELSE 0

\* A starts as zeros; the double loop writes A[im1, im2] and A[im2, im1] for im1 < im2
build_connectivity_matrix(M, min_matches) ==
    [i \in 0..n_cam_of(M) - 1 |->
        [j \in 0..n_cam_of(M) - 1 |->
            IF i = j THEN 0
            ELSE IF i < j THEN Thresholded(n_matches(M, i, j), min_matches)
            ELSE Thresholded(n_matches(M, j, i), min_matches)]]

\* ------------------------------------------------ reprojection_error_from_C
\* The evaluator is external: obs_err[i][t] is the error it returns for the
\* observation of track t by camera i.  C_reproj is NaN-filled and receives one
\* entry per observation.
reprojection_error_from_C(M, obs_err) ==
    [i \in 0..n_cam_of(M) - 1 |->
        [t \in 0..shape1(M) - 1 |->
            IF isnan(M[2 * i][t]) THEN NaN ELSE obs_err[i][t]]]

\* ------------------------------------------------------------ track costs
\* np.nanmean(C_reproj[:, t]) is TrackSum / TrackCnt (NaN when TrackCnt = 0)
TrackCams(Cr, t) == {i \in DOMAIN Cr : ~isnan(Cr[i][t])}
TrackSum(Cr, t) == SumOver(TrackCams(Cr, t), [i \in DOMAIN Cr |-> Cr[i][t]])
TrackCnt(Cr, t) == Cardinality(TrackCams(Cr, t))

\* --------------------------------------------------- compute_camera_weights
\* A weight float(nC_i) + exp(-costC_i) is kept exactly, as the pair of its two
\* terms: whole = nC_i and expArg = costC_i.  costC_i = mean + 3 * std of the
\* track means of the tracks camera i sees; with every track mean scaled by
\* L = lcm(1..n_cam) to an integer m_t it is (G + 3 * sqrt(n*Q - G^2)) / (n*L),
\* G the sum of the m_t, Q the sum of their squares, n their number.
ZeroCost == [G |-> 0, Q |-> 0, n |-> 1]

CostOf(M, Cr, i) ==
    LET seen == {t \in 0..shape1(M) - 1 : ~isnan(M[2 * i][t])}
        L == LcmUpTo(shape0(Cr))
        m == [t \in seen |-> TrackSum(Cr, t) * (L \div TrackCnt(Cr, t))]
    IN [G |-> SumOver(seen, m),
        Q |-> SumOver(seen, [t \in seen |-> m[t] * m[t]]),
        n |-> Cardinality(seen)]

nC(A, i) == Cardinality({j \in DOMAIN A[i] : A[i][j] > 0})

\* variant: the cost of an isolated camera is not reset to 0
CameraCostAlways(M, Cr, A, i) == CostOf(M, Cr, i)

CameraCost(M, Cr, A, i) == IF nC(A, i) > 0 THEN CostOf(M, Cr, i) ELSE ZeroCost

compute_camera_weights(M, Cr, A) ==
    [i \in 0..n_cam_of(M) - 1 |->
        [whole |-> nC(A, i), expArg |-> CameraCost(M, Cr, A, i)]]

\* a + sqrt(X) < b + sqrt(Y), for integers a, b and X, Y >= 0
SqrtLess(a, X, b, Y) ==
    LET d == b - a
        e == X - d * d - Y
        f == Y - d * d - X
    IN IF d >= 0 THEN (e < 0 \/ e * e < 4 * d * d * Y)
       ELSE (f > 0 /\ f * f > 4 * d * d * X)

Disc(c) == c.n * c.Q - c.G * c.G

\* cost c1 < cost c2
CostLess(c1, c2) ==
    SqrtLess(c2.n * c1.G, 9 * c2.n * c2.n * Disc(c1),
             c1.n * c2.G, 9 * c1.n * c1.n * Disc(c2))

CostIsZero(c) == c.G = 0 /\ Disc(c) = 0

\* w1 < w2: exp(-c) lies in (0, 1] and decreases strictly in c >= 0
WeightLess(w1, w2) ==
    \/ w1.whole < w2.whole
    \/ w1.whole = w2.whole /\ CostLess(w2.expArg, w1.expArg)

\* the weight is exactly the integer v: exp(-c) = 1 only for c = 0, else it is
\* not an integer
WeightIs(w, v) == CostIsZero(w.expArg) /\ w.whole + 1 = v

\* np.argmax: the first index of a maximum
argmax(w) ==
    CHOOSE i \in DOMAIN w :
        /\ \A j \in DOMAIN w : ~WeightLess(w[i], w[j])
        /\ \A j \in DOMAIN w : j < i => WeightLess(w[j], w[i])

\* ------------------------------------------------------------ order_tracks
\* (np.sum(~np.isnan(C), axis=0)/2).astype(int): all rows are counted
tracks_len(M, t) == Cardinality({r \in DOMAIN M : ~isnan(M[r][t])}) \div 2

\* variant: the cost enters the sort key without the minus sign
TrackValueLessPlainCost(M, Cr, a, b) ==
    \/ tracks_len(M, a) < tracks_len(M, b)
    \/ /\ tracks_len(M, a) = tracks_len(M, b)
       /\ TrackCnt(Cr, a) > 0
       /\ \/ TrackCnt(Cr, b) = 0
          \/ /\ TrackCnt(Cr, b) > 0
             /\ TrackSum(Cr, a) * TrackCnt(Cr, b) < TrackSum(Cr, b) * TrackCnt(Cr, a)

\* track_values[a] < track_values[b] in the order (length, -cost); a NaN cost
\* sorts after every number
TrackValueLess(M, Cr, a, b) ==
    \/ tracks_len(M, a) < tracks_len(M, b)
    \/ /\ tracks_len(M, a) = tracks_len(M, b)
       /\ TrackCnt(Cr, a) > 0
       /\ \/ TrackCnt(Cr, b) = 0
          \/ /\ TrackCnt(Cr, b) > 0
             /\ TrackSum(Cr, b) * TrackCnt(Cr, a) < TrackSum(Cr, a) * TrackCnt(Cr, b)

\* dict(zip(np.argsort(track_values, order=priority)[::-1], np.arange(N))): the
\* rank maps the sort can produce.  np.argsort's default kind is not stable, so
\* tracks with equal values may come out in any order.
order_tracks(M, Cr) ==
    LET Tr == 0..shape1(M) - 1
        less == Eager([a \in Tr |-> [b \in Tr |-> TrackValueLess(M, Cr, a, b)]])
    IN {r \in [Tr -> Tr] :
            /\ \A a, b \in Tr : a # b => r[a] # r[b]
            /\ \A a, b \in Tr : less[a][b] => r[b] < r[a]}

\* ------------------------------------------------- get_inverted_track_list
RECURSIVE SortByRank(_, _)
SortByRank(S, rank) ==
    IF S = {} THEN <<>>
    ELSE LET b == CHOOSE x \in S : \A y \in S : rank[x] <= rank[y]
         IN <<b>> \o SortByRank(S \ {b}, rank)

get_inverted_track_list(M, rank) ==
    [i \in 0..n_cam_of(M) - 1 |->
        SortByRank({t \in 0..shape1(M) - 1 : ~isnan(M[2 * i][t])}, rank)]

\* variant: an accepted track does not extend Ik
ConsiderTrackNoExtend(st, cam_idx, track_idx, uC, A) ==
    IF track_idx \in set(st.Sk) THEN st
    ELSE LET Wq == {j \in 0..n_cam_of(uC) - 1 : ~isnan(uC[2 * j][track_idx])}
             Rq == {j \in 0..n_cam_of(uC) - 1 : A[cam_idx][j] > 0}
             Zq == Wq \cap Rq
             ZqIk == Zq \cap set(st.Ik)
         IN IF Cardinality(Zq) > 0 /\ Cardinality(Zq) > Cardinality(ZqIk)
            THEN [next |-> st.next \o sorted(Zq \ ZqIk),
                  Sk |-> Append(st.Sk, track_idx),
                  Ik |-> st.Ik]
            ELSE st

\* --------------------------------------------- select_best_tracks, inner loop
\* One (cam_idx, track_idx) step of the double for loop: st holds the three
\* lists the loop body extends.
ConsiderTrack(st, cam_idx, track_idx, uC, A) ==
    IF track_idx \in set(st.Sk) THEN st
    ELSE LET Wq == {j \in 0..n_cam_of(uC) - 1 : ~isnan(uC[2 * j][track_idx])}
             Rq == {j \in 0..n_cam_of(uC) - 1 : A[cam_idx][j] > 0}
             Zq == Wq \cap Rq
             ZqIk == Zq \cap set(st.Ik)
         IN IF Cardinality(Zq) > 0 /\ Cardinality(Zq) > Cardinality(ZqIk)
            THEN [next |-> st.next \o sorted(Zq \ ZqIk),
                  Sk |-> Append(st.Sk, track_idx),
                  Ik |-> st.Ik \o sorted(Zq)]
            ELSE st

RECURSIVE ExpandCam(_, _, _, _, _)
ExpandCam(st, cam_idx, tracks, uC, A) ==
    IF tracks = <<>> THEN st
    ELSE ExpandCam(ConsiderTrack(st, cam_idx, Head(tracks), uC, A),
                   cam_idx, Tail(tracks), uC, A)

RECURSIVE ExpandLayer(_, _, _, _, _)
ExpandLayer(st, layer, inv, uC, A) ==
    IF layer = <<>> THEN st
    ELSE ExpandLayer(ExpandCam(st, Head(layer), inv[Head(layer)], uC, A),
                     Tail(layer), inv, uC, A)

\* len(list(set(Ik) - set(V))) == 0 or h == 0
StopTree(Ik, V, h) == Cardinality(set(Ik) \ V) = 0 \/ h = 0

\* variant: the selected tracks are not masked out of the working table
MaskSelectedNone(uC, selected) == uC

\* updated_C[:, idx] = np.nan for every track already selected
MaskSelected(uC, selected) ==
    [r \in DOMAIN uC |-> [t \in DOMAIN uC[r] |-> IF t \in selected THEN NaN ELSE uC[r][t]]]

\* variant: the outer loop does not test the budget
LoopCondNoBudget(k_, K_, S_, M) == Len(S_) < shape1(M)

\* while k < K and len(S) < len(T)
LoopCond(k_, K_, S_, M) == k_ < K_ /\ Len(S_) < shape1(M)

\* ------------------------------------------- select_best_tracks_adj_cams
\* the rows np.arange(0, C.shape[0], 2) and the slice [-n_new:] of them
RowsOfCams(M) == {r \in DOMAIN M : r % 2 = 0}
LastCams(M, n) ==
    LET R == Cardinality(RowsOfCams(M))
    IN IF n = 0 THEN 0..R - 1
       ELSE {i \in 0..R - 1 : i >= R - n}

true_where_new_track(M, n) ==
    {t \in 0..shape1(M) - 1 : \E i \in LastCams(M, n) : ~isnan(M[2 * i][t])}

\* np.arange(len(true_where_new_track))[true_where_new_track]
PrevTrackIndices(M, n) == sorted(true_where_new_track(M, n))

\* C[:, true_where_new_track]
SubTable(M, prev) == [r \in DOMAIN M |-> [t \in 0..Len(prev) - 1 |-> M[r][prev[t + 1]]]]

\* prev_track_indices[np.array(selected_track_indices)].tolist(): np.array([])
\* is a float array, and indexing with it raises IndexError
Remap(prev, sel) ==
    IF sel = <<>> THEN [raised |-> "IndexError", value |-> <<>>]
    ELSE [raised |-> "", value |-> [p \in 1..Len(sel) |-> prev[sel[p] + 1]]]

\* ------------------------------------------------------------------ state
VARIABLES
    C_in,                  \* the table the caller passes
    err_in,                \* the evaluator's error of each observation of C_in
    K,                     \* the iteration budget
    min_matches,           \* the threshold of build_connectivity_matrix
    pc,                    \* position in the call
    via_adj,               \* entered through select_best_tracks_adj_cams
    n_new,
    prev_track_indices,
    C,                     \* the table select_best_tracks works on
    obs_err,               \* the evaluator's errors for C
    C_reproj,
    ranked_track_indices,
    remaining_T,
    k,
    S,
    updated_C,
    A,
    inverted_track_list,
    camera_weights,
    Croot,
    Sk,
    Ik,
    nodes_last_layer_Hk,
    iterate_current_tree,
    reached,               \* history: the cameras put into Ik by any outer iteration
    result                 \* the value returned to the caller

vars == <<C_in, err_in, K, min_matches, pc, via_adj, n_new, prev_track_indices, C,
          obs_err, C_reproj, ranked_track_indices, remaining_T, k, S, updated_C, A,
          inverted_track_list, camera_weights, Croot, Sk, Ik, nodes_last_layer_Hk,
          iterate_current_tree, reached, result>>

inputs == <<C_in, err_in, K, min_matches>>
adj_vars == <<via_adj, n_new, prev_track_indices>>
call_vars == <<C, obs_err, C_reproj, ranked_track_indices>>
tree_vars == <<A, inverted_track_list, camera_weights, Croot, Sk, Ik,
               nodes_last_layer_Hk, iterate_current_tree>>

\* ------------------------------------------------------------------ inputs
ErrVals == {0, 1}

\* A well-formed table of n cameras: both rows of a camera are present or both
\* missing in every column.  cells[i][t] is the error of the observation, or NaN.
TableOf(cells, rows) ==
    [r \in 0..rows - 1 |-> [t \in DOMAIN cells[0] |->
        IF isnan(cells[r \div 2][t]) THEN NaN ELSE 0]]

\* a column of the cells: camera -> error or NaN
Columns(n) == [0..n - 1 -> ErrVals \cup {NaN}]

\* every observation of the track has the same error
Uniform(col) ==
    \A i, j \in DOMAIN col : isnan(col[i]) \/ isnan(col[j]) \/ col[i] = col[j]

UniformColumns(n) == {col \in Columns(n) : Uniform(col)}

RECURSIVE ColCode(_, _)
ColCode(col, i) ==
    IF i \notin DOMAIN col THEN 0
    ELSE (col[i] + 1) + (Cardinality(ErrVals) + 1) * ColCode(col, i + 1)

\* The functions below treat the columns alike (tracks of equal value are ranked
\* in any order), so one table is drawn per multiset of columns: the columns
\* come in the order of their codes.
CellTables(n, N, cols) ==
    {[i \in 0..n - 1 |-> [t \in 0..N - 1 |-> cs[t][i]]] :
        cs \in {c \in [0..N - 1 -> cols] :
                   \A t \in 0..N - 2 : ColCode(c[t], 0) <= ColCode(c[t + 1], 0)}}

\* The selector passes no threshold (line 174), so the default of line 4 applies.
\* The default is drawn from Thresholds, so that tables of MaxTracks columns hold
\* cameras that pass it.
Thresholds == 1..MaxThreshold \cup {DefaultMinMatches}

Idle ==
    /\ via_adj = FALSE
    /\ n_new = 0
    /\ prev_track_indices = <<>>
    /\ C = <<>>
    /\ obs_err = <<>>
    /\ C_reproj = <<>>
    /\ ranked_track_indices = <<>>
    /\ remaining_T = {}
    /\ k = 0
    /\ S = <<>>
    /\ updated_C = <<>>
    /\ A = <<>>
    /\ inverted_track_list = <<>>
    /\ camera_weights = <<>>
    /\ Croot = 0
    /\ Sk = <<>>
    /\ Ik = <<>>
    /\ nodes_last_layer_Hk = <<>>
    /\ iterate_current_tree = FALSE
    /\ reached = {}
    /\ result = [raised |-> "", value |-> <<>>]

InitInputs ==
    /\ \E N \in 0..MaxTracks : \E cells \in CellTables(MaxCams, N, UniformColumns(MaxCams)) :
        /\ C_in = TableOf(cells, 2 * MaxCams)
        /\ err_in = cells
    /\ K \in {0, MaxK}
    /\ min_matches \in Thresholds

Init ==
    /\ InitInputs
    /\ pc = "start"
    /\ Idle

InitAdj ==
    /\ InitInputs
    /\ pc = "adj_start"
    /\ Idle

\* a table of any row count, and a threshold, for build_connectivity_matrix
InitConn ==
    /\ \E N \in 0..MaxTracks : \E cells \in [0..MaxCams - 1 -> [0..N - 1 -> {NaN, 0}]] :
        \E rows \in {2 * MaxCams - 1, 2 * MaxCams} :
            /\ C_in = TableOf(cells, rows)
            /\ err_in = cells
    /\ K = DefaultK
    /\ min_matches \in 0..MaxThreshold \cup {DefaultMinMatches}
    /\ pc = "conn_start"
    /\ Idle

\* a table with an error per observation, for order_tracks
InitRank ==
    /\ \E N \in 0..MaxTracks : \E cells \in CellTables(MaxCams, N, Columns(MaxCams)) :
        /\ C_in = TableOf(cells, 2 * MaxCams)
        /\ err_in = cells
    /\ K = DefaultK
    /\ min_matches = DefaultMinMatches
    /\ pc = "rank_start"
    /\ Idle

\* a table with one error per track, and a threshold, for compute_camera_weights
InitWeights ==
    /\ \E N \in 0..MaxTracks : \E cells \in CellTables(MaxCams, N, UniformColumns(MaxCams)) :
        /\ C_in = TableOf(cells, 2 * MaxCams)
        /\ err_in = cells
    /\ K = DefaultK
    /\ min_matches \in Thresholds
    /\ pc = "weights_start"
    /\ Idle

\* ----------------------------------------------------------------- actions
\* select_best_tracks_adj_cams, lines 123-129: filter the columns and call
\* select_best_tracks on the sub-table
FilterNewTracks ==
    /\ pc = "adj_start"
    /\ \E n \in 0..n_cam_of(C_in) :
        /\ n_new' = n
        /\ prev_track_indices' = PrevTrackIndices(C_in, n)
        /\ C' = SubTable(C_in, PrevTrackIndices(C_in, n))
        /\ obs_err' = SubTable(err_in, PrevTrackIndices(C_in, n))
    /\ via_adj' = TRUE
    /\ pc' = "enter"
    /\ UNCHANGED <<inputs, C_reproj, ranked_track_indices, remaining_T, k, S,
                   updated_C, tree_vars, reached, result>>

\* a direct call of select_best_tracks on the caller's table
CallDirect ==
    /\ pc = "start"
    /\ C' = C_in
    /\ obs_err' = err_in
    /\ pc' = "enter"
    /\ UNCHANGED <<inputs, adj_vars, C_reproj, ranked_track_indices, remaining_T, k, S,
                   updated_C, tree_vars, reached, result>>

\* select_best_tracks, lines 146-156
Enter ==
    /\ pc = "enter"
    /\ LET Cr == Eager(reprojection_error_from_C(C, obs_err))
       IN /\ C_reproj' = Cr
          /\ ranked_track_indices' \in order_tracks(C, Cr)
    /\ remaining_T' = 0..shape1(C) - 1
    /\ k' = 0
    /\ S' = <<>>
    /\ updated_C' = C
    /\ pc' = "loop"
    /\ UNCHANGED <<inputs, adj_vars, C, obs_err, tree_vars, reached, result>>

\* lines 158-185: the loop test holds; mask, rebuild, pick the root
OuterBegin ==
    /\ pc = "loop"
    /\ LoopCond(k, K, S, C)
    /\ LET uC == Eager(MaskSelected(updated_C, (0..shape1(C) - 1) \ remaining_T))
           A1 == Eager(build_connectivity_matrix(uC, min_matches))
           w == Eager(compute_camera_weights(uC, C_reproj, A1))
           root == argmax(w)
       IN /\ updated_C' = uC
          /\ A' = A1
          /\ inverted_track_list' = get_inverted_track_list(uC, ranked_track_indices)
          /\ camera_weights' = w
          /\ Croot' = root
          /\ Sk' = <<>>
          /\ Ik' = <<root>>
          /\ nodes_last_layer_Hk' = <<root>>
    /\ iterate_current_tree' = TRUE
    /\ pc' = "tree"
    /\ UNCHANGED <<inputs, adj_vars, call_vars, remaining_T, k, S, reached, result>>

\* lines 186-204: one pass of the inner while loop
TreePass ==
    /\ pc = "tree"
    /\ iterate_current_tree
    /\ LET st == ExpandLayer([next |-> <<>>, Sk |-> Sk, Ik |-> Ik],
                             nodes_last_layer_Hk, inverted_track_list, updated_C, A)
           h == Len(nodes_last_layer_Hk)
       IN /\ Sk' = st.Sk
          /\ Ik' = st.Ik
          /\ iterate_current_tree' = ~StopTree(st.Ik, 0..n_cam_of(C) - 1, h)
          /\ nodes_last_layer_Hk' = st.next
    /\ UNCHANGED <<inputs, adj_vars, call_vars, remaining_T, k, S, updated_C, A,
                   inverted_track_list, camera_weights, Croot, pc, reached, result>>

\* lines 206-208
OuterEnd ==
    /\ pc = "tree"
    /\ ~iterate_current_tree
    /\ k' = k + 1
    /\ remaining_T' = remaining_T \ set(Sk)
    /\ S' = S \o Sk
    /\ reached' = reached \cup set(Ik)
    /\ pc' = "loop"
    /\ UNCHANGED <<inputs, adj_vars, call_vars, updated_C, tree_vars, result>>

\* line 214
ReturnS ==
    /\ pc = "loop"
    /\ ~LoopCond(k, K, S, C)
    /\ result' = [raised |-> "", value |-> S]
    /\ pc' = "returned"
    /\ UNCHANGED <<inputs, adj_vars, call_vars, remaining_T, k, S, updated_C, tree_vars,
                   reached>>

\* select_best_tracks_adj_cams, lines 130-132
RemapReturn ==
    /\ pc = "returned"
    /\ via_adj
    /\ result' = Remap(prev_track_indices, S)
    /\ pc' = "adj_returned"
    /\ UNCHANGED <<inputs, adj_vars, call_vars, remaining_T, k, S, updated_C, tree_vars,
                   reached>>

\* build_connectivity_matrix called on its own
BuildConnectivity ==
    /\ pc = "conn_start"
    /\ A' = build_connectivity_matrix(C_in, min_matches)
    /\ pc' = "conn_returned"
    /\ UNCHANGED <<inputs, adj_vars, call_vars, remaining_T, k, S, updated_C,
                   inverted_track_list, camera_weights, Croot, Sk, Ik,
                   nodes_last_layer_Hk, iterate_current_tree, reached, result>>

\* order_tracks called on its own
OrderTracks ==
    /\ pc = "rank_start"
    /\ C' = C_in
    /\ obs_err' = err_in
    /\ LET Cr == Eager(reprojection_error_from_C(C_in, err_in))
       IN /\ C_reproj' = Cr
          /\ ranked_track_indices' \in order_tracks(C_in, Cr)
    /\ pc' = "rank_returned"
    /\ UNCHANGED <<inputs, adj_vars, remaining_T, k, S, updated_C, tree_vars, reached,
                   result>>

\* compute_camera_weights called on its own, with the matrix of the table
ComputeWeights ==
    /\ pc = "weights_start"
    /\ LET Cr == Eager(reprojection_error_from_C(C_in, err_in))
           A1 == Eager(build_connectivity_matrix(C_in, min_matches))
       IN /\ C_reproj' = Cr
          /\ A' = A1
          /\ camera_weights' = compute_camera_weights(C_in, Cr, A1)
    /\ C' = C_in
    /\ obs_err' = err_in
    /\ pc' = "weights_returned"
    /\ UNCHANGED <<inputs, adj_vars, ranked_track_indices, remaining_T, k, S, updated_C,
                   inverted_track_list, Croot, Sk, Ik, nodes_last_layer_Hk,
                   iterate_current_tree, reached, result>>

Select ==
    \/ Enter
    \/ OuterBegin
    \/ TreePass
    \/ OuterEnd
    \/ ReturnS

Next ==
    \/ CallDirect
    \/ Select

NextAdj ==
    \/ FilterNewTracks
    \/ Select
    \/ RemapReturn

Spec == Init /\ [][Next]_vars

SpecAdj == InitAdj /\ [][NextAdj]_vars

SpecConn == InitConn /\ [][BuildConnectivity]_vars

SpecRank == InitRank /\ [][OrderTracks]_vars

SpecWeights == InitWeights /\ [][ComputeWeights]_vars

\* ------------------------------------------------------------------ claims
NoDup(s) == \A i, j \in 1..Len(s) : i # j => s[i] # s[j]

Tracks == 0..shape1(C) - 1
Cameras == 0..n_cam_of(C) - 1

\* camera i observes track t of table M: both of its rows are present
Observes(M, i, t) == ~isnan(M[2 * i][t]) /\ ~isnan(M[2 * i + 1][t])

\* every step of a call lowers this measure, which is never negative
Measure ==
    CASE pc = "start" -> 3 * K + 4
      [] pc = "enter" -> 3 * K + 3
      [] pc = "loop" -> 3 * (K - k) + 2
      [] pc = "tree" -> 3 * (K - k) + (IF iterate_current_tree THEN 1 ELSE 0)
      [] OTHER -> 0

\* C1: S never holds a track index twice, neither within one outer iteration
\* (S followed by the Sk being built has no repetition) nor across iterations,
\* and len(S) never decreases.
C1_SelectionMonotone ==
    /\ [](NoDup(S) /\ (pc = "tree" => NoDup(S \o Sk)))
    /\ [][Len(S') >= Len(S)]_vars

\* C1 witness: an outer iteration that selected a track has ended after an earlier
\* iteration had already put a track into S.
C1_Witness == pc = "tree" /\ ~iterate_current_tree /\ Len(S) >= 1 /\ Len(Sk) >= 1

\* C2: when select_best_tracks returns, K outer iterations were executed, or
\* every camera with a positive entry in the connectivity matrix of the input
\* table was put into the Ik of some outer iteration and observes a track of the
\* returned S.
C2_CoverageOrBudget ==
    pc = "returned" =>
        \/ k = K
        \/ \A i \in Cameras :
               nC(build_connectivity_matrix(C, min_matches), i) > 0 =>
                   /\ i \in reached
                   /\ \E t \in set(result.value) : Observes(C, i, t)

\* C2 witness: a return before the budget is used up, from a table with connected
\* cameras.
C2_Witness ==
    /\ pc = "returned"
    /\ k < K
    /\ \E i \in Cameras : nC(build_connectivity_matrix(C, min_matches), i) > 0

\* C3 as claimed: an outer iteration whose Sk is empty is never followed by
\* another outer iteration (stated for the threshold the selector uses).
C3_EmptyIterationIsLast ==
    [][(min_matches = DefaultMinMatches /\ pc = "loop" /\ k >= 1 /\ Sk = <<>>)
           => pc' # "tree"]_vars

\* C3 amended: select_best_tracks terminates because k grows by one in every
\* outer iteration and the loop stops once k = K or every track is selected:
\* every step lowers a measure bounded by the budget K, also after an iteration
\* that selected nothing.
C3_TerminatesByBudget ==
    /\ [](Measure >= 0 /\ k <= K)
    /\ [][Measure' < Measure]_vars
    /\ [][(pc = "tree" /\ pc' = "loop") => k' = k + 1]_vars

\* C3 witness: a second outer iteration runs although the first selected nothing.
C3_Witness == pc = "tree" /\ k >= 1 /\ S = <<>> /\ shape1(C) >= 1

\* C4: select_best_tracks_adj_cams returns a list (possibly empty) whose indices
\* are columns of the unfiltered table, each observed by one of the last n_new
\* cameras and each the global index of the local column select_best_tracks chose
\* (stated for the threshold the selector uses).
C4_RemapCorrect ==
    (min_matches = DefaultMinMatches /\ pc = "adj_returned") =>
        /\ result.raised = ""
        /\ Len(result.value) = Len(S)
        /\ \A p \in 1..Len(result.value) :
            /\ result.value[p] \in 0..shape1(C_in) - 1
            /\ \E i \in 0..n_cam_of(C_in) - 1 :
                   i >= n_cam_of(C_in) - n_new /\ Observes(C_in, i, result.value[p])
            /\ result.value[p] = prev_track_indices[S[p] + 1]

\* number of tracks observed by both camera i and camera j
CoObserved(M, i, j) ==
    Cardinality({t \in 0..shape1(M) - 1 : Observes(M, i, t) /\ Observes(M, j, t)})

\* C5: for a table of M cameras and a threshold >= 0 the matrix is M x M, has a
\* zero diagonal, and for i # j has A[i,j] = A[j,i] = T when the number T of
\* co-observed tracks is at least the threshold, and 0 when it is below.
C5_Connectivity ==
    (pc = "conn_returned" /\ shape0(C_in) % 2 = 0) =>
        /\ DOMAIN A = 0..MaxCams - 1
        /\ \A i \in DOMAIN A :
            /\ DOMAIN A[i] = 0..MaxCams - 1
            /\ A[i][i] = 0
            /\ \A j \in DOMAIN A \ {i} :
                /\ A[i][j] = A[j][i]
                /\ CoObserved(C_in, i, j) >= min_matches => A[i][j] = CoObserved(C_in, i, j)
                /\ CoObserved(C_in, i, j) < min_matches => A[i][j] = 0

\* C5 witness: a matrix with a pair of cameras at the threshold and a pair with
\* matches below it.
C5_Witness ==
    /\ pc = "conn_returned"
    /\ shape0(C_in) % 2 = 0
    /\ \E i, j \in DOMAIN A : i # j /\ min_matches > 0 /\ CoObserved(C_in, i, j) = min_matches
    /\ \E i, j \in DOMAIN A :
           i # j /\ CoObserved(C_in, i, j) > 0 /\ CoObserved(C_in, i, j) < min_matches

\* number of cameras observing track t
Length(M, t) == Cardinality({i \in 0..n_cam_of(M) - 1 : Observes(M, i, t)})

\* track a has a lower average reprojection cost than track b
LowerCost(Cr, a, b) ==
    /\ TrackCnt(Cr, a) > 0
    /\ TrackCnt(Cr, b) > 0
    /\ TrackSum(Cr, a) * TrackCnt(Cr, b) < TrackSum(Cr, b) * TrackCnt(Cr, a)

\* C6: the rank map is a bijection from the N tracks onto 0..N-1; a longer track
\* has a strictly smaller rank, and among tracks of equal length the one of lower
\* average cost has the smaller rank.
C6_RankOrder ==
    pc = "rank_returned" =>
        /\ DOMAIN ranked_track_indices = Tracks
        /\ {ranked_track_indices[t] : t \in Tracks} = Tracks
        /\ \A a, b \in Tracks :
            /\ Length(C, a) > Length(C, b) => ranked_track_indices[a] < ranked_track_indices[b]
            /\ (Length(C, a) = Length(C, b) /\ LowerCost(C_reproj, a, b))
                   => ranked_track_indices[a] < ranked_track_indices[b]

\* C6 witness: a ranking of a table with two tracks of equal length and
\* different cost.
C6_Witness ==
    /\ pc = "rank_returned"
    /\ \E a, b \in Tracks : Length(C, a) = Length(C, b) /\ LowerCost(C_reproj, a, b)

\* C7: a table with an odd row count makes build_connectivity_matrix fail with an
\* error; no connectivity matrix is produced from it.
C7_OddRowsRejected ==
    (pc = "conn_returned" /\ shape0(C_in) % 2 = 1) => (result.raised # "" /\ A = <<>>)

\* cameras j with A[i, j] > 0
PositiveEntries(i) == {j \in DOMAIN A[i] : A[i][j] > 0}

\* C8 as claimed: a camera with no positive entry in its row of A gets weight 0.
C8_IsolatedWeightZero ==
    pc = "weights_returned" =>
        \A i \in Cameras : PositiveEntries(i) = {} => WeightIs(camera_weights[i], 0)

\* C8 amended: a camera with no positive entry in its row of A gets weight
\* 0 + exp(-0) = 1; a camera with nC_i > 0 gets nC_i + exp(-cost_i), cost_i the
\* mean + 3 std of the costs of the tracks it sees.
C8_IsolatedWeightOne ==
    pc = "weights_returned" =>
        \A i \in Cameras :
            /\ PositiveEntries(i) = {} => WeightIs(camera_weights[i], 1)
            /\ PositiveEntries(i) # {} =>
                /\ camera_weights[i].whole = Cardinality(PositiveEntries(i))
                /\ camera_weights[i].expArg = CostOf(C, C_reproj, i)

\* C8 witness: weights of a table with a connected camera and with an isolated
\* camera that sees a track of non-zero cost.
C8_Witness ==
    /\ pc = "weights_returned"
    /\ \E i \in Cameras : PositiveEntries(i) # {}
    /\ \E i \in Cameras :
           PositiveEntries(i) = {} /\ \E t \in Tracks : Observes(C, i, t) /\ C_reproj[i][t] > 0

\* C9: the inner loop stops only when the next layer is empty or Ik covers all
\* cameras, so every camera queued into the next layer is expanded in a
\* following pass.
C9_LayerAfterLayer ==
    (pc = "tree" /\ ~iterate_current_tree) =>
        (nodes_last_layer_Hk = <<>> \/ set(Ik) = Cameras)

\* C10: with a threshold >= 2 and N >= 1 tracks, S stays a strict subset of the
\* tracks, so the test len(S) < len(T) never ends the loop: exactly K outer
\* iterations have run at the return.
C10_StrictSubset ==
    (min_matches >= 2 /\ shape1(C) >= 1 /\ pc \in {"loop", "tree", "returned"}) =>
        /\ Len(S) < shape1(C)
        /\ pc = "tree" => Len(S) + Len(Sk) < shape1(C)
        /\ pc = "returned" => k = K

\* C10 witness: a return after K = MaxK iterations of which one selected a track
\* and a later one selected nothing.
C10_Witness ==
    /\ pc = "returned"
    /\ min_matches >= 2
    /\ k = MaxK
    /\ Len(S) >= 1
    /\ Sk = <<>>

====
